---- MODULE Spec2Model ----
(***************************************************************************)
(* Model of moesif-extproc: the per-stream protocol adapter                *)
(* (grpc_service.rs, event.rs), the bounded ingestion queue and the single *)
(* batching consumer (root_context.rs), and the startup that configures    *)
(* them (main.rs, config.rs).                                              *)
(*                                                                         *)
(* Strings are sequences of one-character tokens, byte strings are         *)
(* sequences of integers 0..255.  Instants are kept as the time elapsed    *)
(* since they were taken, saturating at batch_max_wait (the only           *)
(* comparison the code makes is elapsed >= max_wait).                      *)
(***************************************************************************)
EXTENDS Integers, Sequences, FiniteSets, TLC

VARIABLES
    pc,                   \* per stream: position of the spawned task
    event,                \* per stream: the Event under construction
    request_body_bytes,   \* per stream: Vec<u8> accumulator
    response_body_bytes,  \* per stream: Vec<u8> accumulator
    pending,              \* per stream: item held by a suspended tx.send
    ackChan,              \* per stream: the mpsc channel tx -> rx
    rxOpen,               \* per stream: the gateway still holds rx
    inputs,               \* per stream: items the gateway may deliver
    budget,               \* per stream: items the gateway may still deliver
    opened,               \* the streams the gateway opens
    inLog,                \* history: items read from the inbound stream
    emitted,              \* history: completed tx.send calls
    queue,                \* the ingestion channel event_sender -> event_receiver
    enqLog,               \* history: stream ids in the order the queue accepted them
    cpc,                  \* position of run_event_processor
    buffer,               \* Batcher.buffer
    first_event_time,     \* Batcher.first_event_time
    ages,                 \* history: time since each buffered record was appended
    deliveries,           \* history: delivery calls made by send_batch
    last_outcome,         \* history: how the latest delivery call ended
    last_effects,         \* history: what the latest delivery call did besides
    boot,                 \* position of main: configuration, construction, serving
    config                \* the EnvConfig every component holds a clone of

vars == <<pc, event, request_body_bytes, response_body_bytes, pending, ackChan,
          rxOpen, inputs, budget, opened, inLog, emitted, queue, enqLog, cpc,
          buffer,
          first_event_time, ages, deliveries, last_outcome, last_effects, boot,
          config>>

startupVars == <<boot, config>>

streamVars == <<pc, event, request_body_bytes, response_body_bytes, pending,
                ackChan, rxOpen, budget, inLog, emitted>>

consumerVars == <<cpc, buffer, first_event_time, ages, deliveries, last_outcome,
                  last_effects>>

-----------------------------------------------------------------------------
(* Bounds of the model *)

NumStreams == 3
MaxMsgs == 2
MaxHdrs == 3
MaxIpHdrs == 2

Streams == 1..NumStreams

(* Configuration (config.rs EnvConfig), scaled down *)

BatchMaxSize == 2
BatchMaxWait == 2
QueueMaxSize == 1
GrpcProcessingQueueSize == 1

None == <<>>

Some(x) == <<x>>

Unwrap(opt) == opt[1]

\* header names; the leading ":" marks a pseudo-header
ColonMethod == <<":", "m">>
ColonPath == <<":", "p">>
ColonStatus == <<":", "s">>
XApiVersion == <<"v">>

\* user_id_header / company_id_header after post_process (to_lowercase)
UserIdHeader == Some(<<"u">>)
CompanyIdHeader == Some(<<"c">>)

-----------------------------------------------------------------------------
(* Strings *)

LowerChar(c) ==
    CASE c = "U" -> "u"
      [] c = "C" -> "c"
      [] c = "V" -> "v"
      [] c = "M" -> "m"
      [] OTHER -> c

to_lowercase(s) == [i \in DOMAIN s |-> LowerChar(s[i])]

starts_with_colon(s) == Len(s) > 0 /\ s[1] = ":"

\* String::from_utf8_lossy: an invalid byte becomes U+FFFD
from_utf8_lossy(raw) ==
    [i \in DOMAIN raw |-> IF raw[i] = "xFF" THEN "uFFFD" ELSE raw[i]]

Digits == <<"0", "1", "2", "3", "4", "5", "6", "7", "8", "9">>

DigitVal(c) == (CHOOSE i \in 1..10 : Digits[i] = c) - 1

IsDigit(c) == \E i \in 1..10 : Digits[i] = c

RECURSIVE DecVal(_)
DecVal(s) ==
    IF s = <<>> THEN 0
    ELSE DecVal(SubSeq(s, 1, Len(s) - 1)) * 10 + DigitVal(s[Len(s)])

\* str::parse::<usize>: Ok for a non-empty run of digits
parse_usize(s) ==
    IF s # <<>> /\ \A i \in DOMAIN s : IsDigit(s[i]) THEN Some(DecVal(s)) ELSE None

-----------------------------------------------------------------------------
(* Maps: a HashMap is a function on its key set *)

EmptyMap == [x \in {} |-> <<>>]

Insert(map, k, v) ==
    [x \in (DOMAIN map) \cup {k} |-> IF x = k THEN v ELSE map[x]]

Get(map, k) == IF k \in DOMAIN map THEN Some(map[k]) ELSE None

\* headers.retain(|k, _| !k.starts_with(":"))
retain_not_pseudo(map) ==
    [x \in {k \in DOMAIN map : ~starts_with_colon(k)} |-> map[x]]

\* faulty variant: a repeated name keeps only its last value
RECURSIVE HeaderFold_Overwrite(_, _)
HeaderFold_Overwrite(list, map) ==
    IF list = <<>> THEN map
    ELSE LET header == Head(list)
             key == to_lowercase(header.key)
             value == IF header.value = <<>>
                      THEN from_utf8_lossy(header.raw_value)
                      ELSE header.value
         IN  HeaderFold_Overwrite(Tail(list), Insert(map, key, value))

RECURSIVE HeaderFold(_, _)
HeaderFold(list, map) ==
    IF list = <<>> THEN map
    ELSE LET header == Head(list)
             key == to_lowercase(header.key)
             value == IF header.value = <<>>
                      THEN from_utf8_lossy(header.raw_value)
                      ELSE header.value
         IN  HeaderFold(Tail(list),
                 IF key \in DOMAIN map
                 THEN Insert(map, key, map[key] \o <<",", " ">> \o value)
                 ELSE Insert(map, key, value))

header_list_to_map(header_map) ==
    IF header_map = None THEN EmptyMap ELSE HeaderFold(Unwrap(header_map), EmptyMap)

-----------------------------------------------------------------------------
(* Body encoding *)

\* serde_json::from_slice over the bytes the model feeds: '1' (49) digits
\* form a number, "{}" (123,125) is the empty object, anything else fails
from_slice(bytes) ==
    IF bytes # <<>> /\ \A i \in DOMAIN bytes : bytes[i] = 49
    THEN [ok |-> TRUE, value |-> <<"number", <<DecVal([i \in DOMAIN bytes |-> "1"])>>>>]
    ELSE IF bytes = <<123, 125>>
    THEN [ok |-> TRUE, value |-> <<"object", <<>>>>]
    ELSE [ok |-> FALSE, value |-> <<"error", <<>>>>]

\* the STANDARD alphabet: A-Z a-z 0-9 + /
Alphabet ==
    <<"A", "B", "C", "D", "E", "F", "G", "H", "I", "J", "K", "L", "M", "N", "O", "P",
      "Q", "R", "S", "T", "U", "V", "W", "X", "Y", "Z", "a", "b", "c", "d", "e", "f",
      "g", "h", "i", "j", "k", "l", "m", "n", "o", "p", "q", "r", "s", "t", "u", "v",
      "w", "x", "y", "z", "0", "1", "2", "3", "4", "5", "6", "7", "8", "9", "+", "/">>

Sym(n) == Alphabet[n + 1]

\* the four 6-bit groups of three bytes
Sextets(a, b, c) ==
    LET n == a * 65536 + b * 256 + c
    IN  <<n \div 262144, (n \div 4096) % 64, (n \div 64) % 64, n % 64>>

\* base64 STANDARD engine: 3 bytes -> 4 symbols, '=' padding
RECURSIVE base64_encode(_)
base64_encode(bytes) ==
    IF Len(bytes) = 0 THEN <<>>
    ELSE IF Len(bytes) = 1
    THEN LET s == Sextets(bytes[1], 0, 0) IN <<Sym(s[1]), Sym(s[2]), "=", "=">>
    ELSE IF Len(bytes) = 2
    THEN LET s == Sextets(bytes[1], bytes[2], 0)
         IN  <<Sym(s[1]), Sym(s[2]), Sym(s[3]), "=">>
    ELSE LET s == Sextets(bytes[1], bytes[2], bytes[3])
         IN  <<Sym(s[1]), Sym(s[2]), Sym(s[3]), Sym(s[4])>>
                 \o base64_encode(SubSeq(bytes, 4, Len(bytes)))

encode_body(body_bytes) ==
    LET parsed == from_slice(body_bytes)
    IN  IF parsed.ok
        THEN [body |-> parsed.value, transfer_encoding |-> None]
        ELSE [body |-> <<"string", base64_encode(body_bytes)>>,
              transfer_encoding |-> Some("base64")]

Null == <<"null", <<>>>>

-----------------------------------------------------------------------------
(* Client IP (event.rs get_client_ip).  A listed header name is one token. *)

possible_headers ==
    << <<"x-client-ip">>, <<"x-forwarded-for">>, <<"cf-connecting-ip">>,
       <<"fastly-client-ip">>, <<"true-client-ip">>, <<"x-real-ip">>,
       <<"x-cluster-client-ip">>, <<"x-forwarded">>, <<"forwarded-for">>,
       <<"forwarded">>, <<"x-appengine-user-ip">>, <<"cf-pseudo-ipv4">> >>

\* str::split: the pieces between the separators; always at least one piece
RECURSIVE split(_, _)
split(s, sep) ==
    IF \A i \in DOMAIN s : s[i] # sep THEN <<s>>
    ELSE LET p == CHOOSE i \in DOMAIN s : s[i] = sep /\ \A j \in 1..(i - 1) : s[j] # sep
         IN  <<SubSeq(s, 1, p - 1)>> \o split(SubSeq(s, p + 1, Len(s)), sep)

\* str::trim: leading and trailing white space removed
RECURSIVE trim(_)
trim(s) ==
    IF s = <<>> THEN s
    ELSE IF s[1] = " " THEN trim(Tail(s))
    ELSE IF s[Len(s)] = " " THEN trim(SubSeq(s, 1, Len(s) - 1))
    ELSE s

\* one part of a dotted quad: 1 to 3 digits, no leading zero, at most 255
IsOctet(part) ==
    /\ Len(part) \in 1..3
    /\ \A i \in DOMAIN part : IsDigit(part[i])
    /\ Len(part) > 1 => part[1] # "0"
    /\ DecVal(part) <= 255

\* IpAddr::from_str(s).is_ok(); the values the model feeds hold no ':' and no
\* hex letter, so only the V4 form can be met
IpAddr_from_str_is_ok(s) ==
    LET parts == split(s, ".")
    IN  Len(parts) = 4 /\ \A i \in DOMAIN parts : IsOctet(parts[i])

\* the inner loop: the first piece that parses once trimmed
RECURSIVE first_valid_ip(_, _)
first_valid_ip(ips, i) ==
    IF i > Len(ips) THEN None
    ELSE IF IpAddr_from_str_is_ok(trim(ips[i])) THEN Some(trim(ips[i]))
    ELSE first_valid_ip(ips, i + 1)

\* faulty variant: a later listed header overrides an earlier one
RECURSIVE client_ip_from_LastWins(_, _)
client_ip_from_LastWins(headers, i) ==
    IF i > Len(possible_headers) THEN None
    ELSE LET later == client_ip_from_LastWins(headers, i + 1)
             found == IF possible_headers[i] \in DOMAIN headers
                      THEN first_valid_ip(split(headers[possible_headers[i]], ","), 1)
                      ELSE None
         IN  IF later # None THEN later ELSE found

\* the outer loop, from the i-th listed name on
RECURSIVE client_ip_from(_, _)
client_ip_from(headers, i) ==
    IF i > Len(possible_headers) THEN None
    ELSE LET found == IF possible_headers[i] \in DOMAIN headers
                      THEN first_valid_ip(split(headers[possible_headers[i]], ","), 1)
                      ELSE None
         IN  IF found # None THEN found ELSE client_ip_from(headers, i + 1)

get_client_ip(headers) == client_ip_from(headers, 1)

-----------------------------------------------------------------------------
(* Transaction record (event.rs) *)

RequestInfo_new ==
    [verb |-> <<>>, uri |-> <<>>, headers |-> EmptyMap, transfer_encoding |-> None,
     api_version |-> None, ip_address |-> None, body |-> Null]

RequestInfo_set_headers(req, headers) ==
    LET verb == IF ColonMethod \in DOMAIN headers THEN headers[ColonMethod] ELSE req.verb
        uri == IF ColonPath \in DOMAIN headers THEN headers[ColonPath] ELSE req.uri
        kept == retain_not_pseudo(headers)
    IN  [req EXCEPT !.verb = verb, !.uri = uri, !.headers = kept,
                    !.api_version = Get(kept, XApiVersion),
                    !.ip_address = get_client_ip(kept)]

set_body(info, body_bytes) ==
    IF body_bytes # <<>>
    THEN LET enc == encode_body(body_bytes)
         IN  [info EXCEPT !.body = enc.body,
                          !.transfer_encoding = enc.transfer_encoding]
    ELSE info

ResponseInfo_new ==
    [status |-> 0, headers |-> EmptyMap, ip_address |-> None, body |-> Null,
     transfer_encoding |-> None]

ResponseInfo_set_headers(resp, headers) ==
    LET parsed == IF ColonStatus \in DOMAIN headers
                  THEN parse_usize(headers[ColonStatus]) ELSE None
    IN  [resp EXCEPT !.status = IF parsed # None THEN Unwrap(parsed) ELSE resp.status,
                     !.headers = retain_not_pseudo(headers)]

Event_new ==
    [request |-> RequestInfo_new, response |-> None, user_id |-> None,
     company_id |-> None, direction |-> "Incoming"]

\* faulty variant: the record is pushed as it is, the identity fields never resolved
set_user_and_company_ids_Skipped(ev) == ev

\* faulty variant: a name missing from the request headers is looked up in the
\* response headers
set_user_and_company_ids_AnyLeg(ev) ==
    LET hdrs == ev.request.headers
        more == IF ev.response = None THEN EmptyMap ELSE Unwrap(ev.response).headers
        Lookup(name) == IF name \in DOMAIN hdrs THEN Some(hdrs[name]) ELSE Get(more, name)
        uid == IF UserIdHeader # None /\ Lookup(Unwrap(UserIdHeader)) # None
               THEN Lookup(Unwrap(UserIdHeader)) ELSE ev.user_id
        cid == IF CompanyIdHeader # None /\ Lookup(Unwrap(CompanyIdHeader)) # None
               THEN Lookup(Unwrap(CompanyIdHeader)) ELSE ev.company_id
    IN  [ev EXCEPT !.user_id = uid, !.company_id = cid]

set_user_and_company_ids(ev) ==
    LET hdrs == ev.request.headers
        uid == IF UserIdHeader # None /\ Unwrap(UserIdHeader) \in DOMAIN hdrs
               THEN Some(hdrs[Unwrap(UserIdHeader)]) ELSE ev.user_id
        cid == IF CompanyIdHeader # None /\ Unwrap(CompanyIdHeader) \in DOMAIN hdrs
               THEN Some(hdrs[Unwrap(CompanyIdHeader)]) ELSE ev.company_id
    IN  [ev EXCEPT !.user_id = uid, !.company_id = cid]

-----------------------------------------------------------------------------
(* Inbound items.  kind "unset" is a ProcessingRequest whose oneof is not  *)
(* set; kind "error" is an Err(status) item of the inbound stream.         *)

Item(kind, headers, body, eos) ==
    [kind |-> kind, headers |-> headers, body |-> body, end_of_stream |-> eos]

Hdr(key, value, raw) == [key |-> key, value |-> value, raw_value |-> raw]

RequestHeaderList ==
    <<Hdr(ColonMethod, <<"G">>, <<>>), Hdr(ColonPath, <<"/">>, <<>>),
      Hdr(<<"U">>, <<"a">>, <<>>), Hdr(<<"u">>, <<>>, <<"xFF">>)>>

ResponseHeaderList ==
    <<Hdr(ColonStatus, <<"2", "0", "0">>, <<>>), Hdr(<<"C">>, <<"b">>, <<>>)>>

MessageItems ==
    { Item("request_headers", Some(RequestHeaderList), <<>>, FALSE),
      Item("request_body", None, <<49>>, FALSE),
      Item("request_body", None, <<>>, TRUE),
      Item("request_trailers", None, <<>>, FALSE),
      Item("response_headers", Some(ResponseHeaderList), <<>>, FALSE),
      Item("response_body", None, <<255>>, FALSE),
      Item("response_body", None, <<>>, TRUE),
      Item("response_trailers", None, <<>>, FALSE),
      Item("unset", None, <<>>, FALSE) }

\* a request-headers list with the company header and without the user header
PlainHeaderList ==
    <<Hdr(ColonMethod, <<"P">>, <<>>), Hdr(<<"V">>, <<"2">>, <<>>),
      Hdr(<<"C">>, <<"k">>, <<>>)>>

\* the identity header names, carried by a response or by trailers
IdentityHeaderList ==
    <<Hdr(ColonStatus, <<"4", "0", "4">>, <<>>), Hdr(<<"u">>, <<"r">>, <<>>),
      Hdr(<<"c">>, <<"r">>, <<>>)>>

LegItems ==
    { Item("request_headers", Some(RequestHeaderList), <<>>, FALSE),
      Item("request_headers", Some(PlainHeaderList), <<>>, FALSE),
      Item("request_body", None, <<49>>, FALSE),
      Item("request_body", None, <<255>>, FALSE),
      Item("request_body", None, <<>>, TRUE),
      Item("request_body", None, <<49>>, TRUE),
      Item("request_trailers", Some(IdentityHeaderList), <<>>, FALSE),
      Item("response_headers", Some(IdentityHeaderList), <<>>, FALSE),
      Item("response_body", None, <<49>>, FALSE),
      Item("response_body", None, <<255>>, FALSE),
      Item("response_body", None, <<>>, TRUE),
      Item("response_trailers", Some(IdentityHeaderList), <<>>, FALSE) }

ErrorItem == Item("error", None, <<>>, FALSE)

AllItems == MessageItems \cup {ErrorItem}

-----------------------------------------------------------------------------
(* Protocol adapter (grpc_service.rs) *)

process_request_headers(headers_msg, ev) ==
    [ev EXCEPT !.request =
        RequestInfo_set_headers(ev.request, header_list_to_map(headers_msg.headers))]

\* faulty variant: only the chunk marked end-of-stream is finalized
process_request_body_LastChunk(body_msg, ev, bytes) ==
    LET acc == bytes \o body_msg.body
    IN  [event |-> IF body_msg.end_of_stream
                   THEN [ev EXCEPT !.request = set_body(ev.request, body_msg.body)]
                   ELSE ev,
         bytes |-> acc]

\* faulty variant: the body is finalized at every chunk, marked or not
process_request_body_EveryChunk(body_msg, ev, bytes) ==
    LET acc == bytes \o body_msg.body
    IN  [event |-> [ev EXCEPT !.request = set_body(ev.request, acc)],
         bytes |-> acc]

process_request_body(body_msg, ev, bytes) ==
    LET acc == bytes \o body_msg.body
    IN  [event |-> IF body_msg.end_of_stream
                   THEN [ev EXCEPT !.request = set_body(ev.request, acc)]
                   ELSE ev,
         bytes |-> acc]

process_response_headers(headers_msg, ev) ==
    LET info == IF ev.response = None THEN ResponseInfo_new ELSE Unwrap(ev.response)
    IN  [ev EXCEPT !.response = Some(ResponseInfo_set_headers(info,
                                         header_list_to_map(headers_msg.headers)))]

\* faulty variant: the response section is created by any chunk, not only the last
process_response_body_Eager(body_msg, ev, bytes) ==
    LET acc == bytes \o body_msg.body
        info == IF ev.response = None THEN ResponseInfo_new ELSE Unwrap(ev.response)
    IN  [event |-> IF body_msg.end_of_stream
                   THEN [ev EXCEPT !.response = Some(set_body(info, acc))]
                   ELSE [ev EXCEPT !.response = Some(info)],
         bytes |-> acc]

process_response_body(body_msg, ev, bytes) ==
    LET acc == bytes \o body_msg.body
        info == IF ev.response = None THEN ResponseInfo_new ELSE Unwrap(ev.response)
    IN  [event |-> IF body_msg.end_of_stream
                   THEN [ev EXCEPT !.response = Some(set_body(info, acc))]
                   ELSE ev,
         bytes |-> acc]

\* ProcessingResponse: the oneof variant set, with a default (empty) payload
Response(variant) == [ok |-> TRUE, variant |-> variant, payload |-> "default"]

\* faulty variant: a read error is answered like a message with no variant set
InternalError_AsEmpty == [ok |-> TRUE, variant |-> "unset", payload |-> "default"]

\* Err(Status::internal("Internal error"))
InternalError == [ok |-> FALSE, variant |-> "status_internal", payload |-> "Internal error"]

\* faulty variant: the response-trailers arm answers with the request-trailers variant
ResponseFor_TrailersMixedUp(req) ==
    CASE req.kind = "request_headers" -> Response("request_headers")
      [] req.kind = "request_body" -> Response("request_body")
      [] req.kind = "request_trailers" -> Response("request_trailers")
      [] req.kind = "response_headers" -> Response("response_headers")
      [] req.kind = "response_body" -> Response("response_body")
      [] req.kind = "response_trailers" -> Response("request_trailers")
      [] OTHER -> Response("unset")

ResponseFor(req) ==
    CASE req.kind = "request_headers" -> Response("request_headers")
      [] req.kind = "request_body" -> Response("request_body")
      [] req.kind = "request_trailers" -> Response("request_trailers")
      [] req.kind = "response_headers" -> Response("response_headers")
      [] req.kind = "response_body" -> Response("response_body")
      [] req.kind = "response_trailers" -> Response("response_trailers")
      [] OTHER -> Response("unset")

\* faulty variant: request trailers finalize the request body
process_request_TrailersFinalize(req, ev, reqBytes, respBytes) ==
    LET rb == process_request_body(req, ev, reqBytes)
        sb == process_response_body(req, ev, respBytes)
    IN  [event |-> CASE req.kind = "request_headers" -> process_request_headers(req, ev)
                     [] req.kind = "request_body" -> rb.event
                     [] req.kind = "request_trailers" ->
                            [ev EXCEPT !.request = set_body(ev.request, reqBytes)]
                     [] req.kind = "response_headers" -> process_response_headers(req, ev)
                     [] req.kind = "response_body" -> sb.event
                     [] OTHER -> ev,
         request_body_bytes |-> IF req.kind = "request_body" THEN rb.bytes ELSE reqBytes,
         response_body_bytes |-> IF req.kind = "response_body" THEN sb.bytes ELSE respBytes,
         response |-> ResponseFor(req)]

process_request(req, ev, reqBytes, respBytes) ==
    LET rb == process_request_body(req, ev, reqBytes)
        sb == process_response_body(req, ev, respBytes)
    IN  [event |-> CASE req.kind = "request_headers" -> process_request_headers(req, ev)
                     [] req.kind = "request_body" -> rb.event
                     [] req.kind = "response_headers" -> process_response_headers(req, ev)
                     [] req.kind = "response_body" -> sb.event
                     [] OTHER -> ev,
         request_body_bytes |-> IF req.kind = "request_body" THEN rb.bytes ELSE reqBytes,
         response_body_bytes |-> IF req.kind = "response_body" THEN sb.bytes ELSE respBytes,
         response |-> ResponseFor(req)]

\* faulty variant: the channel takes one value more than its capacity
HasCapacity_OffByOne(chan, capacity) == Len(chan) <= capacity

\* tokio mpsc: a bounded channel accepts a value while it holds fewer than capacity
HasCapacity(chan, capacity) == Len(chan) < capacity

\* faulty variant: the acknowledgement is sent only once the ingestion queue
\* has a free slot
Send_BehindQueue(s, item) ==
    IF ~HasCapacity(queue, config.queue_max_size)
    THEN /\ pending' = [pending EXCEPT ![s] = Some(item)]
         /\ pc' = [pc EXCEPT ![s] = "sending"]
         /\ UNCHANGED <<emitted, ackChan>>
    ELSE IF ~rxOpen[s]
    THEN /\ emitted' = [emitted EXCEPT ![s] = Append(@, [item |-> item, accepted |-> FALSE])]
         /\ pc' = [pc EXCEPT ![s] = "reading"]
         /\ pending' = [pending EXCEPT ![s] = None]
         /\ UNCHANGED ackChan
    ELSE IF HasCapacity(ackChan[s], config.grpc_processing_queue_size)
    THEN /\ emitted' = [emitted EXCEPT ![s] = Append(@, [item |-> item, accepted |-> TRUE])]
         /\ ackChan' = [ackChan EXCEPT ![s] = Append(@, item)]
         /\ pc' = [pc EXCEPT ![s] = "reading"]
         /\ pending' = [pending EXCEPT ![s] = None]
    ELSE /\ pending' = [pending EXCEPT ![s] = Some(item)]
         /\ pc' = [pc EXCEPT ![s] = "sending"]
         /\ UNCHANGED <<emitted, ackChan>>

\* faulty variant: a send refused by a dropped receiver ends the task, which
\* returns without reading on and without pushing
Send_ReturnsOnClosed(s, item) ==
    IF ~rxOpen[s]
    THEN /\ emitted' = [emitted EXCEPT ![s] = Append(@, [item |-> item, accepted |-> FALSE])]
         /\ pc' = [pc EXCEPT ![s] = "done"]
         /\ pending' = [pending EXCEPT ![s] = None]
         /\ UNCHANGED ackChan
    ELSE IF HasCapacity(ackChan[s], config.grpc_processing_queue_size)
    THEN /\ emitted' = [emitted EXCEPT ![s] = Append(@, [item |-> item, accepted |-> TRUE])]
         /\ ackChan' = [ackChan EXCEPT ![s] = Append(@, item)]
         /\ pc' = [pc EXCEPT ![s] = "reading"]
         /\ pending' = [pending EXCEPT ![s] = None]
    ELSE /\ pending' = [pending EXCEPT ![s] = Some(item)]
         /\ pc' = [pc EXCEPT ![s] = "sending"]
         /\ UNCHANGED <<emitted, ackChan>>

\* faulty variant: try_send in place of send().await: with the channel full
\* the acknowledgement is dropped and the loop goes on
Send_TrySend(s, item) ==
    IF ~rxOpen[s] \/ ~HasCapacity(ackChan[s], config.grpc_processing_queue_size)
    THEN /\ emitted' = [emitted EXCEPT ![s] = Append(@, [item |-> item, accepted |-> FALSE])]
         /\ pc' = [pc EXCEPT ![s] = "reading"]
         /\ pending' = [pending EXCEPT ![s] = None]
         /\ UNCHANGED ackChan
    ELSE /\ emitted' = [emitted EXCEPT ![s] = Append(@, [item |-> item, accepted |-> TRUE])]
         /\ ackChan' = [ackChan EXCEPT ![s] = Append(@, item)]
         /\ pc' = [pc EXCEPT ![s] = "reading"]
         /\ pending' = [pending EXCEPT ![s] = None]

\* tx.send(item).await, up to the point where it completes or suspends
Send(s, item) ==
    IF ~rxOpen[s]
    THEN /\ emitted' = [emitted EXCEPT ![s] = Append(@, [item |-> item, accepted |-> FALSE])]
         /\ pc' = [pc EXCEPT ![s] = "reading"]
         /\ pending' = [pending EXCEPT ![s] = None]
         /\ UNCHANGED ackChan
    ELSE IF HasCapacity(ackChan[s], config.grpc_processing_queue_size)
    THEN /\ emitted' = [emitted EXCEPT ![s] = Append(@, [item |-> item, accepted |-> TRUE])]
         /\ ackChan' = [ackChan EXCEPT ![s] = Append(@, item)]
         /\ pc' = [pc EXCEPT ![s] = "reading"]
         /\ pending' = [pending EXCEPT ![s] = None]
    ELSE /\ pending' = [pending EXCEPT ![s] = Some(item)]
         /\ pc' = [pc EXCEPT ![s] = "sending"]
         /\ UNCHANGED <<emitted, ackChan>>

\* process(): the gateway opens a stream; the channel is made and the task
\* spawned.  mpsc::channel panics for a capacity of 0.
Process(s) ==
    /\ boot = "serving"
    /\ pc[s] = "idle"
    /\ s \in opened
    /\ pc' = [pc EXCEPT ![s] = IF config.grpc_processing_queue_size = 0
                               THEN "panicked" ELSE "reading"]
    /\ UNCHANGED <<event, request_body_bytes, response_body_bytes, pending, ackChan,
                   rxOpen, inputs, opened, budget, inLog, emitted, queue, enqLog>>
    /\ UNCHANGED consumerVars
    /\ UNCHANGED startupVars

\* one turn of the loop: stream.next() yields Some(Ok(req)) or Some(Err(e))
StreamNext(s) ==
    /\ pc[s] = "reading"
    /\ budget[s] > 0
    /\ \E req \in inputs[s] :
         /\ inLog' = [inLog EXCEPT ![s] = Append(@, req)]
         /\ IF req.kind # "error"
            THEN LET r == process_request(req, event[s], request_body_bytes[s],
                                          response_body_bytes[s])
                 IN  /\ event' = [event EXCEPT ![s] = r.event]
                     /\ request_body_bytes' =
                            [request_body_bytes EXCEPT ![s] = r.request_body_bytes]
                     /\ response_body_bytes' =
                            [response_body_bytes EXCEPT ![s] = r.response_body_bytes]
                     /\ Send(s, r.response)
            ELSE /\ Send(s, InternalError)
                 /\ UNCHANGED <<event, request_body_bytes, response_body_bytes>>
    /\ budget' = [budget EXCEPT ![s] = @ - 1]
    /\ UNCHANGED <<rxOpen, inputs, opened, queue, enqLog>>
    /\ UNCHANGED consumerVars
    /\ UNCHANGED startupVars

\* a suspended tx.send completes: a slot was freed, or the receiver was dropped
SendResume(s) ==
    /\ pc[s] = "sending"
    /\ ~rxOpen[s] \/ HasCapacity(ackChan[s], config.grpc_processing_queue_size)
    /\ Send(s, Unwrap(pending[s]))
    /\ UNCHANGED <<event, request_body_bytes, response_body_bytes, rxOpen, inputs,
                   opened, budget, inLog, queue, enqLog>>
    /\ UNCHANGED consumerVars
    /\ UNCHANGED startupVars

\* the gateway takes the next acknowledgement from the response stream
GatewayRecv(s) ==
    /\ rxOpen[s]
    /\ ackChan[s] # <<>>
    /\ ackChan' = [ackChan EXCEPT ![s] = Tail(@)]
    /\ UNCHANGED <<pc, event, request_body_bytes, response_body_bytes, pending,
                   rxOpen, inputs, opened, budget, inLog, emitted, queue, enqLog>>
    /\ UNCHANGED consumerVars
    /\ UNCHANGED startupVars

\* the gateway drops the response stream (rx) while the task can still send on it
GatewayDrop(s) ==
    /\ rxOpen[s]
    /\ \/ pc[s] = "reading" /\ budget[s] > 0
       \/ pc[s] = "sending"
    /\ rxOpen' = [rxOpen EXCEPT ![s] = FALSE]
    /\ ackChan' = [ackChan EXCEPT ![s] = <<>>]
    /\ UNCHANGED <<pc, event, request_body_bytes, response_body_bytes, pending,
                   inputs, opened, budget, inLog, emitted, queue, enqLog>>
    /\ UNCHANGED consumerVars
    /\ UNCHANGED startupVars

\* serde_json::to_vec(&event): the record's bytes.  The first token stands for
\* the object with its response null (the stream id for the bytes that differ
\* between two streams' records, request.time); a response section that is
\* present makes the record longer
to_vec(s, ev) ==
    <<[ch |-> "{}", sid |-> s, event |-> Some(ev)]>>
        \o (IF ev.response = None THEN <<>> ELSE <<[ch |-> "r", sid |-> 0, event |-> None]>>)

\* push_event up to the point where event_sender.send completes or suspends
push_event(s, ev) ==
    IF HasCapacity(queue, config.queue_max_size)
    THEN /\ queue' = Append(queue, to_vec(s, ev))
         /\ enqLog' = Append(enqLog, s)
         /\ pc' = [pc EXCEPT ![s] = "done"]
    ELSE /\ pc' = [pc EXCEPT ![s] = "pushing"]
         /\ UNCHANGED <<queue, enqLog>>

\* stream.next() yields None: resolve the identity fields, then push
StreamEnd(s) ==
    /\ pc[s] = "reading"
    /\ LET ev == set_user_and_company_ids(event[s])
       IN  /\ event' = [event EXCEPT ![s] = ev]
           /\ push_event(s, ev)
    /\ UNCHANGED <<request_body_bytes, response_body_bytes, pending, ackChan, rxOpen,
                   inputs, opened, budget, inLog, emitted>>
    /\ UNCHANGED consumerVars
    /\ UNCHANGED startupVars

\* a suspended event_sender.send completes once the queue has a free slot
PushResume(s) ==
    /\ pc[s] = "pushing"
    /\ HasCapacity(queue, config.queue_max_size)
    /\ push_event(s, event[s])
    /\ UNCHANGED <<event, request_body_bytes, response_body_bytes, pending, ackChan,
                   rxOpen, inputs, opened, budget, inLog, emitted>>
    /\ UNCHANGED consumerVars
    /\ UNCHANGED startupVars

-----------------------------------------------------------------------------
(* Batcher (root_context.rs) *)

Batcher_new(max_size, max_wait) ==
    [buffer |-> <<>>, first_event_time |-> None,
     max_size |-> max_size, max_wait |-> max_wait]

\* the consumer's batcher: made from the configuration, its two mutable fields
\* are the variables buffer and first_event_time
Batcher ==
    [Batcher_new(config.batch_max_size, config.batch_max_wait)
        EXCEPT !.buffer = buffer, !.first_event_time = first_event_time]

Millis(n) == <<"millis", n>>

Forever == <<"secs", "u64::MAX">>

\* faulty variant: the window counts as elapsed only strictly after max_wait
calculate_timeout_Strict(b) ==
    IF b.first_event_time # None
    THEN LET elapsed == Unwrap(b.first_event_time)
         IN  IF elapsed > b.max_wait THEN Millis(0)
             ELSE Millis(b.max_wait - elapsed + 1)
    ELSE Forever

\* the Instant is kept as the time elapsed since it was taken
calculate_timeout(b) ==
    IF b.first_event_time # None
    THEN LET elapsed == Unwrap(b.first_event_time)
         IN  IF elapsed >= b.max_wait THEN Millis(0)
             ELSE Millis(b.max_wait - elapsed)
    ELSE Forever

\* faulty variant: the first-record time is never taken
handle_new_event_NoTime(b, ev) == [b EXCEPT !.buffer = Append(b.buffer, ev)]

\* faulty variant: a new record is put in front of the batch
handle_new_event_Front(b, ev) ==
    [b EXCEPT !.buffer = <<ev>> \o b.buffer,
              !.first_event_time = IF b.first_event_time = None THEN Some(0)
                                   ELSE b.first_event_time]

\* faulty variant: a new record replaces the batch instead of joining it
handle_new_event_Replace(b, ev) ==
    [b EXCEPT !.buffer = <<ev>>,
              !.first_event_time = IF b.first_event_time = None THEN Some(0)
                                   ELSE b.first_event_time]

handle_new_event(b, ev) ==
    [b EXCEPT !.buffer = Append(b.buffer, ev),
              !.first_event_time = IF b.first_event_time = None THEN Some(0)
                                   ELSE b.first_event_time]

\* faulty variant: the batch is flushed only once it exceeds max_size
should_flush_Strict(b) == Len(b.buffer) > b.max_size

should_flush(b) == Len(b.buffer) >= b.max_size

has_events(b) == b.first_event_time # None

\* faulty variant: the first-record time survives the flush
reset_KeepsTime(b) == [b EXCEPT !.buffer = <<>>]

\* faulty variant: the flushed records stay in the buffer
reset_KeepsBuffer(b) == [b EXCEPT !.first_event_time = None]

reset(b) == [b EXCEPT !.buffer = <<>>, !.first_event_time = None]

Byte(c) == [ch |-> c, sid |-> 0, event |-> None]

\* faulty variant: a comma is written before every record, the first included
RECURSIVE JoinEvents_LeadingComma(_, _)
JoinEvents_LeadingComma(events, i) ==
    IF i > Len(events) THEN <<>>
    ELSE <<Byte(",")>> \o events[i] \o JoinEvents_LeadingComma(events, i + 1)

RECURSIVE JoinEvents(_, _)
JoinEvents(events, i) ==
    IF i > Len(events) THEN <<>>
    ELSE (IF i > 1 THEN <<Byte(",")>> ELSE <<>>) \o events[i] \o JoinEvents(events, i + 1)

write_events_json(events) == <<Byte("[")>> \o JoinEvents(events, 1) \o <<Byte("]")>>

-----------------------------------------------------------------------------
(* The consumer task run_event_processor *)

\* faulty variant: the flush takes the batch out of the batcher (a copy is
\* delivered) and the batcher starts a fresh batch while the call is in flight
flush_buffer_Copy(b, trigger) ==
    IF b.buffer = <<>>
    THEN /\ buffer' = reset(b).buffer
         /\ first_event_time' = reset(b).first_event_time
         /\ UNCHANGED <<deliveries, cpc, last_outcome, last_effects>>
    ELSE /\ buffer' = reset(b).buffer
         /\ first_event_time' = reset(b).first_event_time
         /\ deliveries' = Append(deliveries,
                [body |-> write_events_json(b.buffer), trigger |-> trigger])
         /\ cpc' = "dispatch"
         /\ UNCHANGED <<last_outcome, last_effects>>

\* flush_buffer up to the delivery call of send_batch; for an empty buffer
\* send_batch returns at once and the batcher is reset without suspending
flush_buffer(b, trigger) ==
    IF b.buffer = <<>>
    THEN /\ buffer' = reset(b).buffer
         /\ first_event_time' = reset(b).first_event_time
         /\ UNCHANGED <<deliveries, cpc, last_outcome, last_effects>>
    ELSE /\ buffer' = b.buffer
         /\ first_event_time' = b.first_event_time
         /\ deliveries' = Append(deliveries,
                [body |-> write_events_json(b.buffer), trigger |-> trigger])
         /\ cpc' = "dispatch"
         /\ UNCHANGED <<last_outcome, last_effects>>

\* faulty variant: the delivery runs detached and the loop goes on receiving
Recv_DuringFlush ==
    /\ queue # <<>>
    /\ LET b == handle_new_event(Batcher, Head(queue))
       IN  /\ queue' = Tail(queue)
           /\ IF should_flush(b)
              THEN flush_buffer(b, "size")
              ELSE /\ buffer' = b.buffer
                   /\ first_event_time' = b.first_event_time
                   /\ UNCHANGED <<cpc, deliveries, last_outcome, last_effects>>
    /\ ages' = SubSeq(Append(ages, 0), 1, Len(buffer'))
    /\ UNCHANGED <<enqLog, inputs, opened>>
    /\ UNCHANGED streamVars
    /\ UNCHANGED startupVars

\* select! branch: Some(event) = event_receiver.recv()
Recv ==
    /\ cpc = "select"
    /\ queue # <<>>
    /\ LET b == handle_new_event(Batcher, Head(queue))
       IN  /\ queue' = Tail(queue)
           /\ IF should_flush(b)
              THEN flush_buffer(b, "size")
              ELSE /\ buffer' = b.buffer
                   /\ first_event_time' = b.first_event_time
                   /\ UNCHANGED <<cpc, deliveries, last_outcome, last_effects>>
    /\ ages' = SubSeq(Append(ages, 0), 1, Len(buffer'))
    /\ UNCHANGED <<enqLog, inputs, opened>>
    /\ UNCHANGED streamVars
    /\ UNCHANGED startupVars

\* select! branch: sleep(calculate_timeout()) completed, if has_events()
Timeout ==
    /\ cpc = "select"
    /\ has_events(Batcher)
    /\ calculate_timeout(Batcher) = Millis(0)
    /\ flush_buffer(Batcher, "timer")
    /\ ages' = SubSeq(ages, 1, Len(buffer'))
    /\ UNCHANGED <<queue, enqLog, inputs, opened>>
    /\ UNCHANGED streamVars
    /\ UNCHANGED startupVars

\* what client.request(..).send() may yield: a response with a success
\* status, a response with another status, or an error
Outcomes == {"success", "status_error", "transport_error"}

\* the status of the collector's response
StatusOf(o) == IF o = "success" THEN 200 ELSE 500

\* dispatch_http_request from send().await on: `?` returns the error; any
\* response goes to the callback and its status is returned in Ok
dispatch_http_request(o) ==
    IF o = "transport_error"
    THEN [ok |-> FALSE, status |-> None, callback |-> FALSE]
    ELSE [ok |-> TRUE, status |-> Some(StatusOf(o)), callback |-> TRUE]

\* send_batch after the delivery call: an Err is logged, an Ok is dropped
send_batch(o) ==
    LET r == dispatch_http_request(o)
    IN  [callback |-> r.callback, error_logged |-> ~r.ok]

\* dispatch_http_request returns to send_batch; flush_buffer then resets the batcher
DispatchReturn ==
    /\ cpc = "dispatch"
    /\ \E o \in Outcomes :
          /\ last_outcome' = o
          /\ last_effects' = send_batch(o)
    /\ buffer' = reset(Batcher).buffer
    /\ first_event_time' = reset(Batcher).first_event_time
    /\ ages' = SubSeq(ages, 1, Len(buffer'))
    /\ cpc' = "select"
    /\ UNCHANGED <<deliveries, queue, enqLog, inputs, opened>>
    /\ UNCHANGED streamVars
    /\ UNCHANGED startupVars

\* elapsed times are only compared with max_wait: they stop growing there
Saturate(n) == IF n < config.batch_max_wait THEN n + 1 ELSE n

\* time passes by one unit
Tick ==
    /\ \/ first_event_time # None /\ Unwrap(first_event_time) < config.batch_max_wait
       \/ \E i \in DOMAIN ages : ages[i] < config.batch_max_wait
    /\ first_event_time' = IF first_event_time = None THEN None
                           ELSE Some(Saturate(Unwrap(first_event_time)))
    /\ ages' = [i \in DOMAIN ages |-> Saturate(ages[i])]
    /\ UNCHANGED <<cpc, buffer, deliveries, last_outcome, last_effects, queue, enqLog,
                   inputs, opened>>
    /\ UNCHANGED streamVars
    /\ UNCHANGED startupVars

-----------------------------------------------------------------------------
(* Startup (main.rs, config.rs) *)

\* #[derive(Default)] on EnvConfig: every size is 0
EnvConfig_default ==
    [batch_max_size |-> 0, batch_max_wait |-> 0, queue_max_size |-> 0,
     grpc_processing_queue_size |-> 0]

\* what envy::from_env can yield in Ok: each size as the environment sets it,
\* here 0 or the model's value
LoadedConfigs ==
    [batch_max_size : {0, BatchMaxSize}, batch_max_wait : {0, BatchMaxWait},
     queue_max_size : {0, QueueMaxSize},
     grpc_processing_queue_size : {0, GrpcProcessingQueueSize}]

\* EnvConfig::new: a failed load falls back to the default, a failed
\* validation is logged, and the configuration is returned either way
EnvConfig_new ==
    /\ boot = "main"
    /\ \/ config' = EnvConfig_default
       \/ \E env \in LoadedConfigs : config' = env
    /\ boot' = "configured"
    /\ UNCHANGED <<inputs, opened, queue, enqLog>>
    /\ UNCHANGED streamVars
    /\ UNCHANGED consumerVars

\* MoesifGlooExtProcGrpcService::new -> EventRootContext::new: the queue is
\* made with mpsc::channel(queue_max_size), which panics for 0; otherwise the
\* consumer is spawned and the server starts
EventRootContext_new ==
    /\ boot = "configured"
    /\ boot' = IF config.queue_max_size = 0 THEN "panicked" ELSE "serving"
    /\ UNCHANGED <<config, inputs, opened, queue, enqLog>>
    /\ UNCHANGED streamVars
    /\ UNCHANGED consumerVars

-----------------------------------------------------------------------------
(* Specifications *)

\* the queue is empty, no stream is open, the consumer waits in select! with
\* an empty batcher
InitCore ==
    /\ pc = [s \in Streams |-> "idle"]
    /\ event = [s \in Streams |-> Event_new]
    /\ request_body_bytes = [s \in Streams |-> <<>>]
    /\ response_body_bytes = [s \in Streams |-> <<>>]
    /\ pending = [s \in Streams |-> None]
    /\ ackChan = [s \in Streams |-> <<>>]
    /\ rxOpen = [s \in Streams |-> TRUE]
    /\ inLog = [s \in Streams |-> <<>>]
    /\ emitted = [s \in Streams |-> <<>>]
    /\ queue = <<>>
    /\ enqLog = <<>>
    /\ cpc = "select"
    /\ buffer = <<>>
    /\ first_event_time = None
    /\ ages = <<>>
    /\ deliveries = <<>>
    /\ last_outcome = "none"
    /\ last_effects = [callback |-> FALSE, error_logged |-> FALSE]

\* the configuration loaded from a complete environment
ValidConfig ==
    [batch_max_size |-> BatchMaxSize, batch_max_wait |-> BatchMaxWait,
     queue_max_size |-> QueueMaxSize,
     grpc_processing_queue_size |-> GrpcProcessingQueueSize]

\* the service as constructed from a valid configuration
InitState ==
    /\ InitCore
    /\ boot = "serving"
    /\ config = ValidConfig

\* two streams; the first carries up to MaxMsgs items of any kind
Init ==
    /\ InitState
    /\ opened = {1, 2}
    /\ inputs = [s \in Streams |-> IF s = 1 THEN AllItems ELSE {}]
    /\ budget = [s \in Streams |-> IF s = 1 THEN MaxMsgs ELSE 0]

\* every stream closes after at most a few trailers messages
InitBatch ==
    /\ InitState
    /\ opened = Streams
    /\ inputs = [s \in Streams |-> {Item("request_trailers", None, <<>>, FALSE)}]
    /\ budget = [s \in Streams |-> IF s = 1 THEN GrpcProcessingQueueSize + 1 ELSE 0]

Next ==
    \/ \E s \in Streams : Process(s)
    \/ \E s \in Streams : StreamNext(s)
    \/ \E s \in Streams : SendResume(s)
    \/ \E s \in Streams : GatewayRecv(s)
    \/ \E s \in Streams : GatewayDrop(s)
    \/ \E s \in Streams : StreamEnd(s)
    \/ \E s \in Streams : PushResume(s)
    \/ Recv
    \/ Timeout
    \/ DispatchReturn
    \/ Tick

Spec == Init /\ [][Next]_vars

SpecBatch == InitBatch /\ [][Next]_vars

\* the stream tasks and the gateway alone: what a record holds depends on
\* nothing else
NextStream ==
    \/ \E s \in Streams : Process(s)
    \/ \E s \in Streams : StreamNext(s)
    \/ \E s \in Streams : SendResume(s)
    \/ \E s \in Streams : GatewayRecv(s)
    \/ \E s \in Streams : GatewayDrop(s)
    \/ \E s \in Streams : StreamEnd(s)

\* one stream carrying body chunks, headers and trailers in any order
InitLegs ==
    /\ InitState
    /\ opened = {1}
    /\ inputs = [s \in Streams |-> IF s = 1 THEN LegItems ELSE {}]
    /\ budget = [s \in Streams |-> IF s = 1 THEN MaxMsgs + 1 ELSE 0]

SpecLegs == InitLegs /\ [][NextStream]_vars

\* the header lines a list is drawn from: two casings of one name, an empty
\* value with raw bytes, a pseudo-header
HeaderLines ==
    { Hdr(<<"U">>, <<"a">>, <<>>), Hdr(<<"u">>, <<"b">>, <<>>),
      Hdr(<<"u">>, <<>>, <<"xFF">>), Hdr(ColonMethod, <<"G">>, <<>>) }

HeaderLists == UNION {[1..n -> HeaderLines] : n \in 0..MaxHdrs}

\* one stream carrying headers messages: a list drawn from HeaderLists, or none
InitHeaders ==
    /\ InitState
    /\ opened = {1}
    /\ \E hl \in HeaderLists :
          inputs = [s \in Streams |->
                       IF s = 1
                       THEN { Item("request_headers", Some(hl), <<>>, FALSE),
                              Item("response_headers", Some(hl), <<>>, FALSE),
                              Item("request_headers", None, <<>>, FALSE),
                              Item("response_headers", None, <<>>, FALSE) }
                       ELSE {}]
    /\ budget = [s \in Streams |-> IF s = 1 THEN MaxMsgs ELSE 0]

SpecHeaders == InitHeaders /\ [][NextStream]_vars

\* header names: the first two listed names, the last one, and one not listed
IpNames ==
    {<<"x-client-ip">>, <<"x-forwarded-for">>, <<"cf-pseudo-ipv4">>, <<"x-other">>}

\* header values: "1.1.1.1", "x, 2.2.2.2,1.1.1.1", "x", "256.1.1.1"
IpValues ==
    { <<"1", ".", "1", ".", "1", ".", "1">>,
      <<"x", ",", " ", "2", ".", "2", ".", "2", ".", "2", ",",
        "1", ".", "1", ".", "1", ".", "1">>,
      <<"x">>,
      <<"2", "5", "6", ".", "1", ".", "1", ".", "1">> }

IpHeaderLines == {Hdr(n, v, <<>>) : n \in IpNames, v \in IpValues}

IpHeaderLists == UNION {[1..n -> IpHeaderLines] : n \in 0..MaxIpHdrs}

\* one stream carrying request-headers messages with a list drawn from IpHeaderLists
InitClientIp ==
    /\ InitState
    /\ opened = {1}
    /\ \E hl \in IpHeaderLists :
          inputs = [s \in Streams |->
                       IF s = 1 THEN {Item("request_headers", Some(hl), <<>>, FALSE)}
                       ELSE {}]
    /\ budget = [s \in Streams |-> IF s = 1 THEN GrpcProcessingQueueSize + 1 ELSE 0]

SpecClientIp == InitClientIp /\ [][NextStream]_vars

\* as InitBatch, but the first stream carries response-headers messages, so
\* its record holds a response section
InitPayload ==
    /\ InitState
    /\ opened = Streams
    /\ inputs = [s \in Streams |->
                    {Item("response_headers", Some(ResponseHeaderList), <<>>, FALSE)}]
    /\ budget = [s \in Streams |-> IF s = 1 THEN GrpcProcessingQueueSize + 1 ELSE 0]

SpecPayload == InitPayload /\ [][Next]_vars

\* the process at the start of main, before the configuration is loaded
InitStartup ==
    /\ InitCore
    /\ boot = "main"
    /\ config = EnvConfig_default
    /\ opened = Streams
    /\ inputs = [s \in Streams |-> {Item("request_trailers", None, <<>>, FALSE)}]
    /\ budget = [s \in Streams |-> IF s = 1 THEN GrpcProcessingQueueSize + 1 ELSE 0]

NextStartup ==
    \/ EnvConfig_new
    \/ EventRootContext_new
    \/ Next

SpecStartup == InitStartup /\ [][NextStartup]_vars

\* time advances, and the runtime runs the consumer task once its timer has fired
SpecBatchLive == InitBatch /\ [][Next]_vars /\ WF_vars(Tick) /\ WF_vars(Timeout)

\* every stream closes without a message, in any order
InitConsumer ==
    /\ InitState
    /\ opened = Streams
    /\ inputs = [s \in Streams |-> {}]
    /\ budget = [s \in Streams |-> 0]

\* the producers' pushes and the consumer
NextConsumer ==
    \/ \E s \in Streams : Process(s)
    \/ \E s \in Streams : StreamEnd(s)
    \/ \E s \in Streams : PushResume(s)
    \/ Recv
    \/ Timeout
    \/ DispatchReturn
    \/ Tick

\* the consumer task keeps running: a ready select! branch is taken, the
\* delivery call returns, and time advances
SpecConsumerLive ==
    /\ InitConsumer
    /\ [][NextConsumer]_vars
    /\ WF_vars(Tick)
    /\ WF_vars(Recv)
    /\ WF_vars(Timeout)
    /\ WF_vars(DispatchReturn)

-----------------------------------------------------------------------------
(* Helpers of the properties *)

RECURSIVE Flatten(_)
Flatten(seqs) == IF seqs = <<>> THEN <<>> ELSE Head(seqs) \o Flatten(Tail(seqs))

IsRecord(tok) == tok.ch = "{}"

\* the record tokens of a byte string, in order
RecordsOf(bytes) == SelectSeq(bytes, IsRecord)

SidsOf(bytes) == [i \in DOMAIN RecordsOf(bytes) |-> RecordsOf(bytes)[i].sid]

DeliveredBytes == Flatten([i \in DOMAIN deliveries |-> deliveries[i].body])

\* every record token now in the queue, in the batch or in a delivered payload
PushedRecords ==
    LET all == RecordsOf(DeliveredBytes \o Flatten(buffer) \o Flatten(queue))
    IN  {all[i] : i \in DOMAIN all}

Occurrences(seq, x) == Cardinality({i \in DOMAIN seq : seq[i] = x})

SixVariants ==
    {"request_headers", "request_body", "request_trailers",
     "response_headers", "response_body", "response_trailers"}

EmptyResponseOf(kind) == [ok |-> TRUE, variant |-> kind, payload |-> "default"]

AckItems(s) == [i \in DOMAIN emitted[s] |-> emitted[s][i].item]

IsSuffix(a, b) ==
    /\ Len(a) <= Len(b)
    /\ a = SubSeq(b, Len(b) - Len(a) + 1, Len(b))

-----------------------------------------------------------------------------
\* C1: on every stream each inbound message gets exactly one acknowledgement,
\* handed to the acknowledgement channel in arrival order; the i-th one is the
\* empty response of the variant of the i-th inbound message.  A send is only
\* refused once the gateway has dropped its end of the channel.
C1_OneAckPerMessageInOrder ==
    \A s \in Streams :
        /\ Len(emitted[s]) + (IF pc[s] = "sending" THEN 1 ELSE 0) = Len(inLog[s])
        /\ \A i \in DOMAIN emitted[s] :
              /\ inLog[s][i].kind \in SixVariants
                    => emitted[s][i].item = EmptyResponseOf(inLog[s][i].kind)
              /\ ~emitted[s][i].accepted => ~rxOpen[s]
        /\ pc[s] = "sending" =>
              LET last == inLog[s][Len(inLog[s])]
              IN  last.kind \in SixVariants
                     => pending[s] = Some(EmptyResponseOf(last.kind))
        /\ rxOpen[s] => IsSuffix(ackChan[s], AckItems(s))

C1_Witness ==
    \E s \in Streams :
        /\ Len(emitted[s]) = 2
        /\ emitted[s][1].accepted /\ emitted[s][2].accepted
        /\ emitted[s][1].item.variant = "request_headers"
        /\ emitted[s][2].item.variant = "response_trailers"

-----------------------------------------------------------------------------
\* the identity fields as resolution from the request header map leaves them
IdentityResolved(ev) ==
    /\ ev.user_id = Get(ev.request.headers, Unwrap(UserIdHeader))
    /\ ev.company_id = Get(ev.request.headers, Unwrap(CompanyIdHeader))

C2_Inv ==
    /\ \A s \in Streams :
          /\ Occurrences(enqLog, s) <= 1
          /\ Occurrences(enqLog, s) = 1 <=> pc[s] = "done"
    /\ \A r \in PushedRecords :
          /\ Occurrences(enqLog, r.sid) = 1
          /\ IdentityResolved(Unwrap(r.event))
          /\ Unwrap(r.event) = event[r.sid]

C2_Step ==
    \A s \in Streams :
        pc[s] = "done" =>
            /\ pc'[s] = "done"
            /\ event'[s] = event[s]
            /\ inLog'[s] = inLog[s]
            /\ Occurrences(enqLog', s) = 1

\* C2: a stream's record is appended to the ingestion queue exactly once, only
\* when the inbound stream has ended and the identity fields are resolved, by a
\* single push that is not repeated, and the record is not modified afterwards.
C2_PushedOnceAfterClose == [](C2_Inv) /\ [][C2_Step]_vars

C2_Witness ==
    \E s \in Streams :
        /\ pc[s] = "done"
        /\ Occurrences(enqLog, s) = 1
        /\ event[s].user_id # None
        /\ Len(inLog[s]) = 2

-----------------------------------------------------------------------------
CreatesResponse(req) ==
    \/ req.kind = "response_headers"
    \/ req.kind = "response_body" /\ req.end_of_stream

SawResponseLeg(s) == \E i \in DOMAIN inLog[s] : CreatesResponse(inLog[s][i])

\* C3: the response section is present exactly when the stream handled a
\* response-headers message or a response-body chunk marked end-of-stream; a
\* stream that closes before that still pushes its record, response absent.
C3_ResponsePresence ==
    /\ \A s \in Streams : event[s].response # None <=> SawResponseLeg(s)
    /\ \A r \in PushedRecords : Unwrap(r.event).response # None <=> SawResponseLeg(r.sid)
    /\ \A s \in Streams : pc[s] = "done" => \E r \in PushedRecords : r.sid = s

C3_Witness ==
    \E r \in PushedRecords :
        /\ Unwrap(r.event).response = None
        /\ Unwrap(r.event).request.verb # <<>>
        /\ \E i \in DOMAIN inLog[r.sid] : inLog[r.sid][i].kind = "response_body"

-----------------------------------------------------------------------------
C4_Inv ==
    /\ Len(queue) <= QueueMaxSize
    /\ \A s \in Streams : pc[s] = "pushing" => Occurrences(enqLog, s) = 0
    /\ \A s \in Streams : pc[s] = "done" => Occurrences(enqLog, s) = 1

C4_Step ==
    \A s \in Streams :
        \* a push that finds the queue full suspends
        /\ (pc[s] = "reading" /\ pc'[s] \in {"pushing", "done"} /\ Len(queue) >= QueueMaxSize)
              => pc'[s] = "pushing"
        \* a suspended producer stays suspended while no slot is free ...
        /\ (pc[s] = "pushing" /\ Len(queue) >= QueueMaxSize) => pc'[s] = "pushing"
        \* ... and when it leaves, it has enqueued its own record
        /\ (pc[s] = "pushing" /\ pc'[s] # "pushing")
              => /\ pc'[s] = "done"
                 /\ enqLog' = Append(enqLog, s)
                 /\ queue' = Append(queue, to_vec(s, event[s]))

\* C4: the ingestion queue never holds more than its capacity; a producer that
\* finds it full suspends until the consumer frees a slot and then enqueues
\* its record (no timeout, no drop); while nothing is dequeued it stays
\* suspended.
C4_BoundedQueueBackpressure == [](C4_Inv) /\ [][C4_Step]_vars

C4_Witness ==
    \E s, u \in Streams :
        /\ pc[s] = "done" /\ pc[u] = "pushing"
        /\ Len(queue) = QueueMaxSize
        /\ cpc = "dispatch"

-----------------------------------------------------------------------------
NumRecords(bytes) == Len(RecordsOf(bytes))

\* C5: the batch never holds more than max-size records; a batch that reaches
\* max-size is flushed at once (the consumer dequeues nothing further before
\* the delivery returns) and a size-triggered flush delivers exactly max-size
\* records.
C5_SizeFlush ==
    /\ Len(buffer) <= BatchMaxSize
    /\ cpc = "select" => Len(buffer) < BatchMaxSize
    /\ Len(buffer) = BatchMaxSize =>
          /\ cpc = "dispatch"
          /\ deliveries[Len(deliveries)].body = write_events_json(buffer)
          /\ deliveries[Len(deliveries)].trigger = "size"
    /\ \A i \in DOMAIN deliveries :
          deliveries[i].trigger = "size" => NumRecords(deliveries[i].body) = BatchMaxSize

C5_Witness ==
    /\ cpc = "dispatch"
    /\ Len(buffer) = BatchMaxSize
    /\ queue # <<>>

-----------------------------------------------------------------------------
\* the wait window of the current batch, measured from its first record
WindowElapsed == buffer # <<>> /\ ages[1] >= BatchMaxWait

\* C6 as stated: no record is appended to a batch whose wait window has
\* already elapsed
C6_NoAppendAfterWindow ==
    [][(cpc = "select" /\ WindowElapsed) => Len(buffer') <= Len(buffer)]_vars

\* C6, amended: once the wait window of the non-empty batch has elapsed the
\* wait-window branch is ready whatever the batch size, the next step of the
\* consumer is that flush or the receipt of a record that is already
\* available, and a batch that is not empty is eventually flushed.
C6_TimerFlush ==
    /\ []((cpc = "select" /\ WindowElapsed) => ENABLED Timeout)
    /\ [][(cpc = "select" /\ WindowElapsed /\ <<cpc, buffer>>' # <<cpc, buffer>>)
             => \/ cpc' = "dispatch" /\ buffer' = buffer
                                     /\ deliveries'[Len(deliveries')].trigger = "timer"
                \/ queue # <<>> /\ buffer' = Append(buffer, Head(queue))]_vars
    /\ (buffer # <<>>) ~> (cpc = "dispatch")

C6_Witness ==
    /\ Len(deliveries) = 1
    /\ deliveries[1].trigger = "timer"
    /\ NumRecords(deliveries[1].body) = 1
    /\ cpc = "dispatch"

-----------------------------------------------------------------------------
\* C7: a flush of fewer than max-size records happens only when at least the
\* maximum wait has passed since the first record of that batch was appended.
C7_TimerFlushOnlyAfterWait ==
    [][(Len(deliveries') > Len(deliveries)
          /\ NumRecords(deliveries'[Len(deliveries')].body) < BatchMaxSize)
         => /\ ages # <<>>
            /\ ages[1] >= BatchMaxWait
            /\ deliveries'[Len(deliveries')].trigger = "timer"]_vars

C7_Witness ==
    /\ Len(deliveries) = 2
    /\ deliveries[1].trigger = "size"
    /\ deliveries[2].trigger = "timer"
    /\ NumRecords(deliveries[2].body) < BatchMaxSize

-----------------------------------------------------------------------------
\* C8: the first-record time is set exactly when the batch is not empty; with
\* an empty batch the wait-window branch is disabled, and no delivery call is
\* made for an empty batch.
C8_TimerArmedIffNonEmpty ==
    /\ first_event_time # None <=> buffer # <<>>
    /\ has_events(Batcher) <=> buffer # <<>>
    /\ (cpc = "select" /\ buffer = <<>>) => ~ENABLED Timeout
    /\ \A i \in DOMAIN deliveries : NumRecords(deliveries[i].body) >= 1

C8_Witness ==
    /\ cpc = "select"
    /\ buffer = <<>>
    /\ Len(deliveries) >= 1
    /\ queue # <<>>

-----------------------------------------------------------------------------
DeliveredSids == SidsOf(DeliveredBytes)

C9_Inv ==
    /\ \A s \in Streams : Occurrences(DeliveredSids, s) <= 1
    /\ \A i \in DOMAIN queue : Occurrences(DeliveredSids, queue[i][1].sid) = 0
    /\ cpc = "select" =>
          \A i \in DOMAIN buffer : Occurrences(DeliveredSids, buffer[i][1].sid) = 0
    /\ first_event_time # None =>
          /\ ages # <<>>
          /\ Unwrap(first_event_time) = ages[1]

C9_Step ==
    \* a flush is one delivery call ...
    /\ (cpc = "select" /\ cpc' = "dispatch") =>
          /\ Len(deliveries') = Len(deliveries) + 1
          /\ deliveries'[Len(deliveries')].body = write_events_json(buffer')
    \* ... and when it returns, however it ended, the batcher is reset and
    \* nothing is sent again or put back
    /\ (cpc = "dispatch" /\ cpc' # "dispatch") =>
          /\ cpc' = "select"
          /\ last_outcome' \in Outcomes
          /\ buffer' = <<>>
          /\ first_event_time' = None
          /\ deliveries' = deliveries
          /\ queue' = queue
    /\ cpc = "dispatch" => (deliveries' = deliveries /\ buffer' \in {buffer, <<>>})

\* C9: every flush makes exactly one delivery call and then resets the
\* accumulator whether the call succeeded or failed; no record of a flushed
\* batch is sent again or re-queued, and the next batch's timer starts at that
\* batch's own first record.
C9_FlushOnceThenReset == [](C9_Inv) /\ [][C9_Step]_vars

C9_Witness ==
    /\ last_outcome = "transport_error"
    /\ cpc = "select"
    /\ buffer # <<>>
    /\ Len(deliveries) = 1
    /\ first_event_time = Some(0)
    /\ queue = <<>>

-----------------------------------------------------------------------------
-----------------------------------------------------------------------------
IsInternalErrorAck(item) == ~item.ok /\ item.variant = "status_internal"

ReadErrors(s) == {i \in DOMAIN inLog[s] : inLog[s][i].kind = "error"}

C11_Inv ==
    \A s \in Streams :
        \* the i-th send is the internal-error item exactly when the i-th read failed
        /\ \A i \in DOMAIN emitted[s] :
              IsInternalErrorAck(emitted[s][i].item) <=> i \in ReadErrors(s)
        /\ pc[s] = "sending" =>
              (IsInternalErrorAck(Unwrap(pending[s])) <=> Len(inLog[s]) \in ReadErrors(s))
        \* the record is pushed once at close, read errors or not
        /\ pc[s] = "done" => Occurrences(enqLog, s) = 1
        /\ pc[s] # "done" => Occurrences(enqLog, s) = 0

C11_Step ==
    \A s \in Streams :
        \* a read error leaves the task in its loop and the record untouched
        /\ (Len(inLog'[s]) > Len(inLog[s]) /\ Len(inLog'[s]) \in ReadErrors(s)')
              => /\ pc'[s] \in {"reading", "sending"}
                 /\ event'[s] = event[s]
                 /\ enqLog' = enqLog
        \* after it the task reads on: the next item or the close
        /\ (pc[s] = "reading" /\ ReadErrors(s) # {} /\ pc'[s] # pc[s])
              => \/ Len(inLog'[s]) = Len(inLog[s]) + 1
                 \/ pc'[s] \in {"done", "pushing"} /\ inLog'[s] = inLog[s]

\* C11: a read error on a stream is answered by one internal-error item sent
\* on that stream; the task stays in its loop, reads the stream until it
\* ends, and the record is still pushed exactly once at close.
C11_ReadErrorAcked == [](C11_Inv) /\ [][C11_Step]_vars

C11_Witness ==
    \E s \in Streams :
        /\ pc[s] = "done"
        /\ Occurrences(enqLog, s) = 1
        /\ Len(inLog[s]) = 2
        /\ inLog[s][1].kind = "error"
        /\ inLog[s][2].kind = "request_headers"
        /\ Len(emitted[s]) = 2
        /\ emitted[s][1].accepted
        /\ event[s].request.verb # <<>>

-----------------------------------------------------------------------------
\* C12: the response is handed to the callback only when the collector
\* answered with a success status; after a transport error or a non-success
\* status the callback is not invoked and the error is logged.
C12_CallbackOnlyOnSuccess ==
    last_outcome # "none" =>
        /\ last_effects.callback <=> last_outcome = "success"
        /\ last_effects.error_logged <=> last_outcome # "success"

-----------------------------------------------------------------------------
\* the positions of the chunks of one leg, and of those marked end-of-stream
ChunksOf(s, kind) == {i \in DOMAIN inLog[s] : inLog[s][i].kind = kind}

FinalChunksOf(s, kind) == {i \in ChunksOf(s, kind) : inLog[s][i].end_of_stream}

MaxOf(set) == CHOOSE i \in set : \A j \in set : j <= i

\* the bytes of all chunks of one leg up to position n, in arrival order
ConcatUpTo(s, kind, n) ==
    Flatten([i \in 1..n |-> IF inLog[s][i].kind = kind THEN inLog[s][i].body ELSE <<>>])

\* what finalizing the bytes leaves in a section
Finalized(info, bytes) ==
    IF bytes = <<>>
    THEN info.body = Null /\ info.transfer_encoding = None
    ELSE IF from_slice(bytes).ok
    THEN info.body = from_slice(bytes).value /\ info.transfer_encoding = None
    ELSE /\ info.body = <<"string", base64_encode(bytes)>>
         /\ info.transfer_encoding = Some("base64")

\* C13: once a leg has seen a chunk marked end-of-stream, its body is the
\* parse of all the leg's bytes received up to the latest such chunk with the
\* marker unset, or their base64 text with the marker "base64" when they do
\* not parse; with no bytes the body keeps its default and the marker is unset.
C13_BodyFinalized ==
    \A s \in Streams :
        /\ FinalChunksOf(s, "request_body") # {} =>
              Finalized(event[s].request,
                        ConcatUpTo(s, "request_body", MaxOf(FinalChunksOf(s, "request_body"))))
        /\ FinalChunksOf(s, "response_body") # {} =>
              /\ event[s].response # None
              /\ Finalized(Unwrap(event[s].response),
                        ConcatUpTo(s, "response_body", MaxOf(FinalChunksOf(s, "response_body"))))

C13_Witness ==
    \E s \in Streams :
        /\ Len(inLog[s]) = 3
        /\ inLog[s][1] = Item("request_body", None, <<49>>, FALSE)
        /\ inLog[s][2] = Item("request_body", None, <<255>>, FALSE)
        /\ inLog[s][3] = Item("request_body", None, <<49>>, TRUE)
        /\ event[s].request.body = <<"string", <<"M", "f", "8", "x">>>>
        /\ event[s].request.transfer_encoding = Some("base64")

-----------------------------------------------------------------------------
UpperCase == {"U", "C", "V", "M"}

IsLowerCase(k) == \A i \in DOMAIN k : k[i] \notin UpperCase

\* the header lines of the latest message of a kind on a stream
LatestHeaderLines(s, kind) ==
    LET msg == inLog[s][MaxOf(ChunksOf(s, kind))]
    IN  IF msg.headers = None THEN <<>> ELSE Unwrap(msg.headers)

LineValue(header) ==
    IF header.value = <<>> THEN from_utf8_lossy(header.raw_value) ELSE header.value

\* the values of the lines whose lowercased name is key, in encounter order
ValuesFor(lines, key) ==
    LET Named(header) == to_lowercase(header.key) = key
        hits == SelectSeq(lines, Named)
    IN  [i \in DOMAIN hits |-> LineValue(hits[i])]

RECURSIVE JoinCommaSpace(_)
JoinCommaSpace(values) ==
    IF Len(values) = 1 THEN values[1]
    ELSE JoinCommaSpace(SubSeq(values, 1, Len(values) - 1))
             \o <<",", " ">> \o values[Len(values)]

NormalizedFrom(map, lines) ==
    /\ \A k \in DOMAIN map : IsLowerCase(k) /\ (k # <<>> => k[1] # ":")
    /\ \A i \in DOMAIN lines :
          LET k == to_lowercase(lines[i].key)
          IN  (k # <<>> /\ k[1] = ":") \/ k \in DOMAIN map
    /\ \A k \in DOMAIN map :
          /\ ValuesFor(lines, k) # <<>>
          /\ map[k] = JoinCommaSpace(ValuesFor(lines, k))

\* C14: after a headers message the header map of that leg has only lowercase
\* keys, none starting with ":", one for every other name of the message, and
\* each value is the values of the lines of that name (the lossy decoding of
\* the raw bytes for an empty value) in encounter order joined by ", ".
C14_HeaderMapNormalized ==
    \A s \in Streams :
        /\ ChunksOf(s, "request_headers") # {} =>
              NormalizedFrom(event[s].request.headers,
                             LatestHeaderLines(s, "request_headers"))
        /\ ChunksOf(s, "response_headers") # {} =>
              /\ event[s].response # None
              /\ NormalizedFrom(Unwrap(event[s].response).headers,
                                LatestHeaderLines(s, "response_headers"))

C14_Witness ==
    \E s \in Streams :
        /\ Len(inLog[s]) = 1
        /\ inLog[s][1].kind = "request_headers"
        /\ DOMAIN event[s].request.headers = {<<"u">>}
        /\ event[s].request.headers[<<"u">>] = <<"b", ",", " ", "uFFFD", ",", " ", "a">>
        /\ event[s].request.verb = <<>>

-----------------------------------------------------------------------------
\* stream s handles one more inbound item in this step
Handles(s) == Len(inLog'[s]) = Len(inLog[s]) + 1

Handled(s) == inLog'[s][Len(inLog'[s])]

\* C15: a headers or trailers message leaves both accumulators unchanged; a
\* trailers message leaves the whole record unchanged; a request-body chunk
\* leaves the response accumulator and the response section unchanged, a
\* response-body chunk the request accumulator and the request section.
C15_Frame ==
    [][\A s \in Streams :
          Handles(s) =>
             /\ Handled(s).kind \in {"request_headers", "response_headers",
                                     "request_trailers", "response_trailers"}
                   => /\ request_body_bytes'[s] = request_body_bytes[s]
                      /\ response_body_bytes'[s] = response_body_bytes[s]
             /\ Handled(s).kind \in {"request_trailers", "response_trailers"}
                   => event'[s] = event[s]
             /\ Handled(s).kind = "request_body"
                   => /\ response_body_bytes'[s] = response_body_bytes[s]
                      /\ event'[s].response = event[s].response
             /\ Handled(s).kind = "response_body"
                   => /\ request_body_bytes'[s] = request_body_bytes[s]
                      /\ event'[s].request = event[s].request]_vars

C15_Witness ==
    \E s \in Streams :
        /\ Len(inLog[s]) = 3
        /\ inLog[s][1] = Item("request_body", None, <<49>>, FALSE)
        /\ inLog[s][2] = Item("response_body", None, <<255>>, FALSE)
        /\ inLog[s][3].kind = "request_trailers"
        /\ request_body_bytes[s] = <<49>>
        /\ response_body_bytes[s] = <<255>>
        /\ event[s] = Event_new

-----------------------------------------------------------------------------
\* the comma-separated pieces of a value, trimmed, and the valid ones among them
TokensOf(value) == [i \in DOMAIN split(value, ",") |-> trim(split(value, ",")[i])]

ValidTokens(value) == SelectSeq(TokensOf(value), IpAddr_from_str_is_ok)

\* the i-th listed name is in the map and its value holds a valid IP literal
Yields(map, i) ==
    /\ possible_headers[i] \in DOMAIN map
    /\ ValidTokens(map[possible_headers[i]]) # <<>>

\* C16: the client IP is the first valid token of the first listed header
\* that has one; a listed header without a valid token is skipped, a later
\* header never overrides an earlier one, and with no valid token in any
\* listed header the client IP is unset.
C16_ClientIp ==
    \A s \in Streams :
        ChunksOf(s, "request_headers") # {} =>
            LET map == event[s].request.headers
                ip == event[s].request.ip_address
                yielding == {i \in DOMAIN possible_headers : Yields(map, i)}
            IN  IF yielding = {} THEN ip = None
                ELSE \E i \in yielding :
                        /\ \A j \in yielding : i <= j
                        /\ ip = Some(Head(ValidTokens(map[possible_headers[i]])))

C16_Witness ==
    \E s \in Streams :
        /\ Len(inLog[s]) = 1
        /\ DOMAIN event[s].request.headers = {<<"x-client-ip">>, <<"x-forwarded-for">>}
        /\ event[s].request.headers[<<"x-client-ip">>] = <<"x">>
        /\ Len(event[s].request.headers[<<"x-forwarded-for">>]) > 7
        /\ event[s].request.ip_address = Some(<<"2", ".", "2", ".", "2", ".", "2">>)

-----------------------------------------------------------------------------
RECURSIVE SumLen(_)
SumLen(members) == IF members = <<>> THEN 0 ELSE Len(Head(members)) + SumLen(Tail(members))

\* where the k-th member starts in the payload: after '[' and after the
\* earlier members with one comma each
OffsetOf(members, k) == 2 + SumLen(SubSeq(members, 1, k - 1)) + (k - 1)

IsJsonArrayOf(payload, members) ==
    /\ Len(payload) = SumLen(members) + (Len(members) - 1) + 2
    /\ payload[1].ch = "["
    /\ payload[Len(payload)].ch = "]"
    /\ \A k \in DOMAIN members :
          /\ SubSeq(payload, OffsetOf(members, k),
                    OffsetOf(members, k) + Len(members[k]) - 1) = members[k]
          /\ k > 1 => payload[OffsetOf(members, k) - 1].ch = ","

\* C17: the payload of a flush is '[', the batch's records as they were pushed,
\* in order and separated by single commas, then ']'; its length is the sum of
\* the records' lengths + (count - 1) + 2.  A flush has at least one record.
C17_PayloadFormat ==
    cpc = "dispatch" =>
        /\ Len(buffer) >= 1
        /\ IsJsonArrayOf(deliveries[Len(deliveries)].body, buffer)
        /\ \A k \in DOMAIN buffer :
              buffer[k] = to_vec(buffer[k][1].sid, event[buffer[k][1].sid])

C17_Witness ==
    /\ cpc = "dispatch"
    /\ Len(buffer) = 2
    /\ Len(buffer[1]) = 1
    /\ Len(buffer[2]) = 2
    /\ Len(deliveries[Len(deliveries)].body) = 6

-----------------------------------------------------------------------------
\* the header lines of the latest request-headers message, none if there was no
\* such message
RequestLinesAtClose(s) ==
    IF ChunksOf(s, "request_headers") = {} THEN <<>>
    ELSE LatestHeaderLines(s, "request_headers")

\* the identity field for a configured name, from those lines alone
ExpectedId(s, name) ==
    IF ValuesFor(RequestLinesAtClose(s), name) = <<>> THEN None
    ELSE Some(JoinCommaSpace(ValuesFor(RequestLinesAtClose(s), name)))

C18_Inv ==
    /\ \A s \in Streams :
          \* nothing is resolved while the stream is open
          /\ pc[s] \in {"idle", "reading", "sending"} =>
                event[s].user_id = None /\ event[s].company_id = None
          \* at close the fields come from the request headers, or stay unset
          /\ pc[s] \in {"pushing", "done"} =>
                /\ event[s].user_id = ExpectedId(s, <<"u">>)
                /\ event[s].company_id = ExpectedId(s, <<"c">>)
    \* the record is pushed as resolved
    /\ \A r \in PushedRecords : Unwrap(r.event) = event[r.sid]

C18_Step ==
    \A s \in Streams :
        \* the close resolves the two fields and changes nothing else
        /\ (pc[s] = "reading" /\ pc'[s] \in {"pushing", "done"}) =>
              event'[s] = [event[s] EXCEPT !.user_id = event'[s].user_id,
                                           !.company_id = event'[s].company_id]
        \* and the record is not resolved again
        /\ pc[s] \in {"pushing", "done"} => event'[s] = event[s]

\* C18: the identity fields are resolved once, when the stream has closed and
\* before the push, from the request header map as it stands then: a field is
\* the value under its configured lowercase name if the request headers have
\* it and unset otherwise; response headers and trailers are never used.
C18_IdentityFromRequestHeaders == [](C18_Inv) /\ [][C18_Step]_vars

C18_Witness ==
    \E s \in Streams :
        /\ pc[s] = "done"
        /\ Len(inLog[s]) = 3
        /\ inLog[s][1] = Item("request_headers", Some(PlainHeaderList), <<>>, FALSE)
        /\ inLog[s][2] = Item("response_headers", Some(IdentityHeaderList), <<>>, FALSE)
        /\ inLog[s][3] = Item("request_trailers", Some(IdentityHeaderList), <<>>, FALSE)
        /\ event[s].user_id = None
        /\ event[s].company_id = Some(<<"k">>)
        /\ \E r \in PushedRecords : r.sid = s

-----------------------------------------------------------------------------
\* C19: whatever configuration the load yields, also one that fails
\* validation (a zero batch size, wait, queue capacity or acknowledgement
\* queue depth), making the queue, the consumer and the adapter of a stream
\* panics nowhere.
C19_NoPanicOnDegradedConfig ==
    /\ boot # "panicked"
    /\ \A s \in Streams : pc[s] # "panicked"

-----------------------------------------------------------------------------
IsPrefix(a, b) == Len(a) <= Len(b) /\ a = SubSeq(b, 1, Len(a))

\* C20: while a delivery call is in flight no other flush starts, nothing is
\* dequeued and nothing is appended to the batch, until the call has returned
\* and the batcher has been reset; a record pushed meanwhile stays in the queue.
C20_OneFlushInFlight ==
    [][cpc = "dispatch" =>
          /\ deliveries' = deliveries
          /\ IsPrefix(queue, queue')
          /\ \/ cpc' = "dispatch" /\ buffer' = buffer
             \/ cpc' = "select" /\ buffer' = <<>> /\ first_event_time' = None]_vars

C20_Witness ==
    /\ cpc = "dispatch"
    /\ Len(deliveries) = 1
    /\ deliveries[1].trigger = "timer"
    /\ queue # <<>>
    /\ \E s \in Streams : pc[s] = "pushing"

-----------------------------------------------------------------------------
\* C21 as stated: while a delivery call is executing the accumulator's live
\* batch is a fresh one, holding none of the records being delivered, and a
\* record waiting in the queue can be taken into it before the call returns
C21_FreshBatchDuringFlush ==
    cpc = "dispatch" =>
        /\ \A i \in DOMAIN buffer :
              Occurrences(SidsOf(deliveries[Len(deliveries)].body), buffer[i][1].sid) = 0
        /\ queue # <<>> => ENABLED Recv

\* C21, amended: the delivery call borrows the accumulator's live batch, which
\* holds exactly the records of the payload until the call returns; a record
\* pushed meanwhile is appended to the queue and leaves the batch alone; the
\* return of the call leaves an empty batch and the queue as it was, and a
\* fresh batch starts only afterwards, with the record at the head of the
\* queue and its own first-record time.
C21_FlushBorrowsLiveBatch ==
    /\ [](cpc = "dispatch" =>
            /\ buffer # <<>>
            /\ first_event_time # None
            /\ RecordsOf(deliveries[Len(deliveries)].body) = RecordsOf(Flatten(buffer))
            /\ ~ENABLED Recv)
    /\ [][(cpc = "dispatch" /\ enqLog' # enqLog) =>
             /\ \E s \in Streams :
                   /\ enqLog' = Append(enqLog, s)
                   /\ queue' = Append(queue, to_vec(s, event'[s]))
             /\ cpc' = "dispatch"
             /\ buffer' = buffer
             /\ first_event_time' = first_event_time]_vars
    /\ [][(cpc = "dispatch" /\ cpc' = "select") =>
             /\ buffer' = <<>>
             /\ queue' = queue]_vars
    /\ [][(buffer = <<>> /\ buffer' # <<>>) =>
             /\ cpc = "select"
             /\ queue # <<>>
             /\ buffer' = <<Head(queue)>>
             /\ first_event_time' = Some(0)]_vars

C21_Witness ==
    /\ cpc = "select"
    /\ Len(deliveries) = 1
    /\ deliveries[1].trigger = "size"
    /\ Len(buffer) = 1
    /\ first_event_time = Some(0)
    /\ DeliveredSids \o SidsOf(Flatten(buffer)) = enqLog

-----------------------------------------------------------------------------
\* the number of delivered payloads that hold the record of stream s
PayloadsWith(s) ==
    Cardinality({i \in DOMAIN deliveries : Occurrences(SidsOf(deliveries[i].body), s) > 0})

\* the number of times the record of stream s waits in the queue or in a
\* batch that has not been flushed
Waiting(s) ==
    Occurrences(SidsOf(Flatten(queue)), s)
        + (IF cpc = "dispatch" THEN 0 ELSE Occurrences(SidsOf(Flatten(buffer)), s))

C22_Inv ==
    /\ \A s \in Streams :
          /\ PayloadsWith(s) <= 1
          /\ Occurrences(DeliveredSids, s) = PayloadsWith(s)
          /\ PayloadsWith(s) + Waiting(s) = Occurrences(enqLog, s)
    /\ \A i \in DOMAIN deliveries :
          /\ deliveries[i].trigger \in {"size", "timer"}
          /\ \A k \in DOMAIN deliveries[i].body :
                LET tok == deliveries[i].body[k]
                IN  IsRecord(tok) => tok.event = Some(event[tok.sid])

\* C22: every record the queue accepted is in the payload of exactly one
\* delivery call: it is in no two payloads, it is in a payload, in the batch or
\* in the queue as long as it is not delivered, and while the consumer task
\* runs and each delivery call returns it is eventually in a payload, flushed
\* by the size trigger or by the wait-window trigger.
C22_DeliveredExactlyOnce ==
    /\ [](C22_Inv)
    /\ \A s \in Streams : (Occurrences(enqLog, s) = 1) ~> (PayloadsWith(s) = 1)

C22_Witness ==
    /\ Len(enqLog) = 3
    /\ Len(deliveries) = 2
    /\ deliveries[1].trigger = "timer"
    /\ deliveries[2].trigger = "size"
    /\ \A s \in Streams : PayloadsWith(s) = 1
    /\ cpc = "select"

-----------------------------------------------------------------------------
\* the acknowledgement channel of stream s holds as many items as it can take
AckChanFull(s) == Len(ackChan[s]) >= config.grpc_processing_queue_size

C23_Inv ==
    \A s \in Streams :
        \* a record is pushed only when every message read has its acknowledgement
        /\ pc[s] \in {"pushing", "done"} =>
              /\ Len(emitted[s]) = Len(inLog[s])
              /\ pending[s] = None
        \* an open stream reads and acknowledges whatever the queue and the
        \* consumer are doing
        /\ (pc[s] = "reading" /\ budget[s] > 0) => ENABLED StreamNext(s)
        /\ (pc[s] = "sending" /\ (~rxOpen[s] \/ ~AckChanFull(s))) => ENABLED SendResume(s)

C23_Step ==
    \A s \in Streams :
        \* an acknowledgement is sent by a task that has not pushed, and
        \* sending it neither reads nor changes the queue
        /\ emitted'[s] # emitted[s] =>
              /\ pc[s] \in {"reading", "sending"}
              /\ pc'[s] = "reading"
              /\ queue' = queue
        \* only a full acknowledgement channel suspends a send
        /\ (pc[s] = "reading" /\ pc'[s] = "sending") => (rxOpen[s] /\ AckChanFull(s))
        \* the queue suspends a task only at the push, after the last read
        /\ (pc[s] # "pushing" /\ pc'[s] = "pushing") =>
              /\ pc[s] = "reading"
              /\ inLog'[s] = inLog[s]
              /\ ~HasCapacity(queue, config.queue_max_size)
        \* from the push on nothing is read and nothing is acknowledged
        /\ pc[s] \in {"pushing", "done"} =>
              /\ inLog'[s] = inLog[s]
              /\ emitted'[s] = emitted[s]
              /\ pc'[s] \in {"pushing", "done"}

\* C23: on every stream all acknowledgements are sent before the stream's
\* record is pushed; a full ingestion queue or a consumer stalled in a
\* delivery call never keeps an open stream from reading and acknowledging its
\* messages; the queue suspends a task only at the push, after its inbound
\* stream has ended.
C23_AcksBeforePush == [](C23_Inv) /\ [][C23_Step]_vars

C23_Witness ==
    /\ cpc = "dispatch"
    /\ ~HasCapacity(queue, config.queue_max_size)
    /\ \E s \in Streams :
          /\ pc[s] = "reading"
          /\ budget[s] = 0
          /\ Len(emitted[s]) = GrpcProcessingQueueSize + 1
          /\ \A i \in DOMAIN emitted[s] : emitted[s][i].accepted
          /\ Occurrences(enqLog, s) = 0
    /\ Len(enqLog) = 2

-----------------------------------------------------------------------------
\* a section that no finalization has touched
BodyUntouched(info) == info.body = Null /\ info.transfer_encoding = None

\* what a record of stream s may hold when a leg saw no chunk marked end-of-stream
UnfinalizedLegs(s, ev) ==
    /\ FinalChunksOf(s, "request_body") = {} => BodyUntouched(ev.request)
    /\ FinalChunksOf(s, "response_body") = {} =>
          (ev.response = None \/ BodyUntouched(Unwrap(ev.response)))

\* C24: with no request-body chunk marked end-of-stream the record's request
\* body is the default value with the encoding marker unset, whatever the
\* request accumulator holds, in the record under construction and in the
\* record pushed at close; likewise the bytes of response-body chunks reach
\* the record only through a response-body chunk marked end-of-stream.
C24_UnfinalizedBodyStaysDefault ==
    /\ \A s \in Streams :
          /\ UnfinalizedLegs(s, event[s])
          /\ request_body_bytes[s] = ConcatUpTo(s, "request_body", Len(inLog[s]))
          /\ response_body_bytes[s] = ConcatUpTo(s, "response_body", Len(inLog[s]))
    /\ \A r \in PushedRecords : UnfinalizedLegs(r.sid, Unwrap(r.event))

C24_Witness ==
    \E r \in PushedRecords :
        /\ pc[r.sid] = "done"
        /\ Len(request_body_bytes[r.sid]) = 2
        /\ Len(response_body_bytes[r.sid]) = 1
        /\ Unwrap(r.event).request.body = Null
        /\ Unwrap(r.event).request.transfer_encoding = None
        /\ Unwrap(r.event).response = None

-----------------------------------------------------------------------------
\* the record and the accumulators of stream s after handling req
Applied(s, req) ==
    IF req.kind = "error"
    THEN <<event[s], request_body_bytes[s], response_body_bytes[s]>>
    ELSE LET r == process_request(req, event[s], request_body_bytes[s],
                                  response_body_bytes[s])
         IN  <<r.event, r.request_body_bytes, r.response_body_bytes>>

C25_Inv ==
    \A s \in Streams :
        ~rxOpen[s] =>
            \* the task goes on: it reads what the gateway still sends, it
            \* leaves a refused send, it takes the end of the stream
            /\ (pc[s] = "reading" /\ budget[s] > 0) => ENABLED StreamNext(s)
            /\ pc[s] = "sending" => ENABLED SendResume(s)
            /\ pc[s] = "reading" => ENABLED StreamEnd(s)
            /\ pc[s] \in {"reading", "sending", "pushing", "done"}
            /\ pc[s] = "done" =>
                  /\ Occurrences(enqLog, s) = 1
                  /\ \E r \in PushedRecords : r.sid = s /\ r.event = Some(event[s])

C25_Step ==
    \A s \in Streams :
        /\ ~rxOpen[s] => ~rxOpen'[s]
        \* a message read after the drop is applied to the record like any
        \* other; its acknowledgement is refused and the loop goes on
        /\ (~rxOpen[s] /\ inLog'[s] # inLog[s]) =>
              \E req \in inputs[s] :
                  /\ inLog'[s] = Append(inLog[s], req)
                  /\ <<event'[s], request_body_bytes'[s], response_body_bytes'[s]>>
                        = Applied(s, req)
                  /\ emitted'[s] = Append(emitted[s],
                        [item |-> IF req.kind = "error" THEN InternalError
                                  ELSE ResponseFor(req),
                         accepted |-> FALSE])
                  /\ pc'[s] = "reading"
        \* a send suspended when the receiver goes away is refused too
        /\ (~rxOpen[s] /\ pc[s] = "sending" /\ pc'[s] # "sending") =>
              /\ pc'[s] = "reading"
              /\ emitted'[s] = Append(emitted[s],
                    [item |-> Unwrap(pending[s]), accepted |-> FALSE])
              /\ event'[s] = event[s]
        \* the end of the inbound stream pushes the record, once
        /\ (~rxOpen[s] /\ pc[s] = "reading" /\ pc'[s] \in {"pushing", "done"}) =>
              /\ event'[s] = set_user_and_company_ids(event[s])
              /\ pc'[s] = "done" => enqLog' = Append(enqLog, s)

\* C25: once the gateway has dropped its end of the acknowledgement channel
\* with the inbound stream still open, the task keeps reading, applies every
\* further message to the record (its acknowledgement is refused and
\* discarded), and pushes exactly one record when the inbound stream closes.
C25_ReadsOnAfterReceiverDropped == [](C25_Inv) /\ [][C25_Step]_vars

C25_Witness ==
    \E s \in Streams :
        /\ pc[s] = "done"
        /\ ~rxOpen[s]
        /\ Occurrences(enqLog, s) = 1
        /\ Len(inLog[s]) = 3
        /\ emitted[s][1].accepted
        /\ ~emitted[s][2].accepted
        /\ ~emitted[s][3].accepted
        /\ inLog[s][2] = Item("request_headers", Some(PlainHeaderList), <<>>, FALSE)
        /\ inLog[s][3] = Item("request_body", None, <<49>>, TRUE)
        /\ \E r \in PushedRecords :
              /\ r.sid = s
              /\ Unwrap(r.event).request.verb = <<"P">>
              /\ Unwrap(r.event).request.body # Null
              /\ Unwrap(r.event).company_id # None

-----------------------------------------------------------------------------
\* the task of stream s is suspended in tx.send with the gateway connected
\* and the channel full
Suspended(s) == pc[s] = "sending" /\ rxOpen[s] /\ AckChanFull(s)

\* every other stream and the consumer can take the step they are at
OthersUnaffected(s) ==
    /\ \A u \in Streams \ {s} :
          /\ (pc[u] = "reading" /\ budget[u] > 0) => ENABLED StreamNext(u)
          /\ pc[u] = "reading" => ENABLED StreamEnd(u)
          /\ (pc[u] = "pushing" /\ HasCapacity(queue, config.queue_max_size))
                => ENABLED PushResume(u)
    /\ (cpc = "select" /\ queue # <<>>) => ENABLED Recv
    /\ (cpc = "select" /\ has_events(Batcher) /\ calculate_timeout(Batcher) = Millis(0))
          => ENABLED Timeout
    /\ cpc = "dispatch" => ENABLED DispatchReturn

C26_Inv ==
    \A s \in Streams :
        /\ Len(ackChan[s]) <= config.grpc_processing_queue_size
        /\ pc[s] = "sending" =>
              /\ pending[s] # None
              /\ Occurrences(enqLog, s) = 0
        /\ Suspended(s) =>
              /\ ~ENABLED StreamNext(s)
              /\ ~ENABLED StreamEnd(s)
              /\ ~ENABLED SendResume(s)
              /\ ENABLED GatewayRecv(s)
              /\ OthersUnaffected(s)

C26_Step ==
    \A s \in Streams :
        \* a send that finds the channel full suspends: nothing is handed over
        /\ (pc[s] = "reading" /\ rxOpen[s] /\ AckChanFull(s) /\ inLog'[s] # inLog[s]) =>
              /\ pc'[s] = "sending"
              /\ pending'[s] # None
              /\ emitted'[s] = emitted[s]
              /\ ackChan'[s] = ackChan[s]
        \* while suspended the task reads nothing, changes nothing, pushes nothing
        /\ Suspended(s) =>
              /\ pc'[s] = "sending"
              /\ pending'[s] = pending[s]
              /\ inLog'[s] = inLog[s]
              /\ event'[s] = event[s]
              /\ emitted'[s] = emitted[s]
              /\ Occurrences(enqLog', s) = 0
        \* it resumes once the gateway has taken an acknowledgement (or has
        \* gone away), and hands over the pending one
        /\ (pc[s] = "sending" /\ pc'[s] # "sending") =>
              /\ ~Suspended(s)
              /\ pc'[s] = "reading"
              /\ emitted'[s] = Append(emitted[s],
                    [item |-> Unwrap(pending[s]), accepted |-> rxOpen[s]])
        \* a step of the stream's own channel touches no other stream, not the
        \* queue and not the consumer
        /\ (ackChan'[s] # ackChan[s] \/ pending'[s] # pending[s]) =>
              /\ \A u \in Streams \ {s} :
                    <<pc[u], event[u], pending[u], ackChan[u], inLog[u], emitted[u]>>'
                       = <<pc[u], event[u], pending[u], ackChan[u], inLog[u], emitted[u]>>
              /\ UNCHANGED <<queue, enqLog, cpc, buffer, first_event_time, deliveries>>

\* C26: a stream's acknowledgement channel never holds more than the
\* configured depth; a send that finds it full with the gateway connected
\* suspends the task, which reads no further message and pushes no record
\* until the gateway takes an acknowledgement; meanwhile every other stream
\* and the consumer take their steps as usual.
C26_AckChannelBackpressure == [](C26_Inv) /\ [][C26_Step]_vars

C26_Witness ==
    \E s \in Streams :
        /\ Suspended(s)
        /\ Len(inLog[s]) = GrpcProcessingQueueSize + 1
        /\ Len(emitted[s]) = GrpcProcessingQueueSize
        /\ \E u \in Streams \ {s} : pc[u] = "done"
        /\ cpc = "dispatch"
        /\ queue # <<>>

====
